---- MODULE Spec2Model ----
(***************************************************************************)
(* querycsv: the batch driver (querycsv.py) and the Glean chat client      *)
(* (gleanClientAPI.py).                                                    *)
(*                                                                         *)
(* Values.  A Python str is a sequence of tokens (the empty str is <<>>),  *)
(* so that substring tests and "\n".join are computed, not assumed.  An    *)
(* Optional value is <<>> for None and <<v>> for a value v.  A JSON object *)
(* is a record whose DOMAIN is its key set; the object with no keys is     *)
(* <<>>.  A JSON value that is not text is the one value JsonNumber.       *)
(***************************************************************************)
EXTENDS Integers, Sequences, FiniteSets, TLC

VARIABLES
    \* ---- querycsv.process_questions ----
    questions,          \* the in-memory row list (mutated in place)
    input,              \* the row list as read_csv returned it
    DEBUG,              \* CONST.get_debug()
    VERBOSE,            \* CONST.is_verbose()
    pc,                 \* position of the run
    idx,                \* index of the row the for loop is at
    processed_num,
    skipped_num,
    api_times,          \* one entry per client call: the index of the row sent
    question_response,  \* the GleanResponse of the last client call
    http,               \* what the network did on the last client call
    file,               \* the output file on disk
    now,                \* wall clock, in ticks
    sleeps,             \* how many times time.sleep(1) ran
    log,                \* the logger records process_questions emitted
    \* ---- gleanClientAPI parse pass over one response ----
    response,           \* the requests.Response being parsed
    parsed_answer,
    parsed_research,
    ppc                 \* position inside getAnswer's parsing block

vars == <<questions, input, DEBUG, VERBOSE, pc, idx, processed_num, skipped_num,
          api_times, question_response, http, file, now, sleeps, log,
          response, parsed_answer, parsed_research, ppc>>

batchVars == <<questions, input, DEBUG, VERBOSE, pc, idx, processed_num,
               skipped_num, api_times, question_response, http, file, now,
               sleeps, log>>

parseVars == <<response, parsed_answer, parsed_research, ppc>>

-----------------------------------------------------------------------------
(* Bounds of the model.                                                    *)

MaxRows == 2
MaxMsgs == 2
MaxFrags == 2

-----------------------------------------------------------------------------
(* Values                                                                  *)

None == <<>>

Some(v) == <<v>>

EmptyObject == <<>>

JsonNumber == <<"<json number>">>

isStr(v) == v # JsonNumber

Marker == "**Reading:**"

\* Python's `needle in text` for a str text
Contains(text, needle) == \E i \in DOMAIN text : text[i] = needle

\* Python truthiness of an Optional[str] / Optional[list]: None and the empty
\* value are falsy
Truthy(opt) == opt # None /\ opt[1] # <<>>

\* the response body: text that json.loads accepts (valid) with the value it
\* yields, or text it rejects
JsonText(obj) == [valid |-> TRUE, value |-> obj]

NotJson == [valid |-> FALSE, value |-> EmptyObject]

-----------------------------------------------------------------------------
(* gleanClientAPI.parseAnswer                                              *)

\* a slip of lines 164-166: the first text found is kept
RECURSIVE answerOfFragments_firstWins(_, _)
answerOfFragments_firstWins(fragments, answer) ==
    IF Len(fragments) = 0 THEN answer
    ELSE LET fragment == Head(fragments) IN
         answerOfFragments_firstWins(Tail(fragments),
                                     IF "text" \in DOMAIN fragment /\ answer = None
                                     THEN Some(fragment.text) ELSE answer)

\* lines 164-167: the fragments of one message
RECURSIVE answerOfFragments(_, _)
answerOfFragments(fragments, answer) ==
    IF Len(fragments) = 0 THEN answer
    ELSE LET fragment == Head(fragments) IN
         answerOfFragments(Tail(fragments),
                           IF "text" \in DOMAIN fragment
                           THEN Some(fragment.text) ELSE answer)

RECURSIVE answerOfMessages(_, _)
answerOfMessages(messages, answer) ==
    IF Len(messages) = 0 THEN answer
    ELSE LET message == Head(messages) IN
         answerOfMessages(Tail(messages),
                          IF "fragments" \in DOMAIN message
                          THEN answerOfFragments(message.fragments, answer)
                          ELSE answer)

parseAnswer(resp) ==
    IF ~resp.text.valid THEN None          \* json.loads raises, caught
    ELSE LET responseObj == resp.text.value IN
         IF "messages" \in DOMAIN responseObj
         THEN answerOfMessages(responseObj.messages, None)
         ELSE None

-----------------------------------------------------------------------------
(* gleanClientAPI.parseCitations                                           *)

RECURSIVE urlsOfCitations(_, _)
urlsOfCitations(citations, urls) ==
    IF Len(citations) = 0 THEN urls
    ELSE LET citation == Head(citations) IN
         urlsOfCitations(Tail(citations),
                         IF "sourceDocument" \in DOMAIN citation
                            /\ "url" \in DOMAIN citation.sourceDocument
                         THEN Append(urls, citation.sourceDocument.url)
                         ELSE urls)

RECURSIVE citationsOfMessages(_, _)
citationsOfMessages(messages, urls) ==
    IF Len(messages) = 0 THEN urls
    ELSE LET message == Head(messages) IN
         citationsOfMessages(Tail(messages),
                             IF "citations" \in DOMAIN message
                             THEN urlsOfCitations(message.citations, urls)
                             ELSE urls)

parseCitations(resp) ==
    IF ~resp.text.valid THEN None
    ELSE LET responseObj == resp.text.value IN
         IF "messages" \in DOMAIN responseObj
         THEN Some(citationsOfMessages(responseObj.messages, <<>>))
         ELSE Some(<<>>)

-----------------------------------------------------------------------------
(* gleanClientAPI.parseResearch                                            *)
(* The scan carries research_urls, reading_context and whether a           *)
(* TypeError was raised (`in` applied to a text value that is not a str).  *)

RECURSIVE urlsOfResults(_, _)
urlsOfResults(structuredResults, urls) ==
    IF Len(structuredResults) = 0 THEN urls
    ELSE LET result == Head(structuredResults) IN
         urlsOfResults(Tail(structuredResults),
                       IF "document" \in DOMAIN result
                          /\ "url" \in DOMAIN result.document
                       THEN Append(urls, result.document.url)
                       ELSE urls)

researchOfFragment(fragment, acc) ==
    IF acc.raised THEN acc
    ELSE IF "text" \in DOMAIN fragment /\ ~isStr(fragment.text)
    THEN [acc EXCEPT !.raised = TRUE]
    ELSE LET reading_context ==
                 IF "text" \in DOMAIN fragment /\ Contains(fragment.text, Marker)
                 THEN TRUE ELSE acc.reading_context
         IN  [raised |-> FALSE,
              reading_context |-> reading_context,
              research_urls |->
                  IF reading_context /\ "structuredResults" \in DOMAIN fragment
                  THEN urlsOfResults(fragment.structuredResults, acc.research_urls)
                  ELSE acc.research_urls]

RECURSIVE researchOfFragments(_, _)
researchOfFragments(fragments, acc) ==
    IF Len(fragments) = 0 THEN acc
    ELSE researchOfFragments(Tail(fragments),
                             researchOfFragment(Head(fragments), acc))

\* a slip of line 219: reading_context is not reset for a new message
researchOfMessage_noReset(message, acc) ==
    IF acc.raised \/ "fragments" \notin DOMAIN message THEN acc
    ELSE researchOfFragments(message.fragments, acc)

\* lines 218-229: one message
researchOfMessage(message, acc) ==
    IF acc.raised \/ "fragments" \notin DOMAIN message THEN acc
    ELSE researchOfFragments(message.fragments,
                             [acc EXCEPT !.reading_context = FALSE])

RECURSIVE researchOfMessages(_, _)
researchOfMessages(messages, acc) ==
    IF Len(messages) = 0 THEN acc
    ELSE researchOfMessages(Tail(messages),
                            researchOfMessage(Head(messages), acc))

parseResearch(resp) ==
    IF ~resp.text.valid THEN None
    ELSE LET responseObj == resp.text.value
             start == [raised |-> FALSE, reading_context |-> FALSE,
                       research_urls |-> <<>>]
         IN  IF "messages" \in DOMAIN responseObj
             THEN LET end == researchOfMessages(responseObj.messages, start)
                  IN  IF end.raised THEN None ELSE Some(end.research_urls)
             ELSE Some(<<>>)

-----------------------------------------------------------------------------
(* gleanClientAPI.GleanResponse and getAnswer                              *)

GleanResponse(answer, research, citations, error) ==
    [answer |-> answer, research |-> research, citations |-> citations,
     error |-> error]

required_fields == {"qid", "question", "answer", "datetime"}

missing_fields(question) == {f \in required_fields : f \notin DOMAIN question}

\* the outcome of a call: a returned GleanResponse, or an exception that
\* leaves getAnswer
Return(value) == [raised |-> FALSE, value |-> value]

Raise == [raised |-> TRUE, value |-> GleanResponse(None, None, None, None)]

\* net: what requests.request does on this call: a transport fault, or a
\* response with a status code and a body
getAnswer(question, net) ==
    IF missing_fields(question) # {}
    THEN Return(GleanResponse(None, None, None,
                              Some([kind |-> "Missing required fields"])))
    ELSE IF DEBUG
    THEN Return(GleanResponse(None, None, None, None))
    ELSE IF net.fault
    THEN Return(GleanResponse(None, None, None,
                    Some([kind |-> "Exception when posting to chat endpoint"])))
    ELSE IF net.response.status_code > 200
    THEN Return(GleanResponse(None, None, None,
                    Some([kind |-> "API error",
                          status_code |-> net.response.status_code,
                          text |-> net.response.text])))
    ELSE IF VERBOSE /\ ~net.response.text.valid
    THEN Raise          \* json.loads in the verbose log line, outside any try
    ELSE Return(GleanResponse(parseAnswer(net.response),
                              parseResearch(net.response),
                              parseCitations(net.response),
                              None))

-----------------------------------------------------------------------------
(* What the network can do on one call.                                    *)

StatusCodes == {101, 200, 201, 404}

Citation(u) == [sourceDocument |-> [url |-> u]]

Document(u) == [document |-> [url |-> <<u>>]]

\* answer "Paris", citations [https://a], research [https://b, https://c]
BodyFull ==
    JsonText([messages |->
        <<[fragments |-> <<[text |-> <<"partial">>],
                           [text |-> <<Marker, "docs">>,
                            structuredResults |-> <<Document("https://b"),
                                                    Document("https://c")>>],
                           [text |-> <<"Paris">>]>>,
           citations |-> <<Citation(<<"https://a">>)>>]>>])

BodyAnswerOnly ==
    JsonText([messages |-> <<[fragments |-> <<[text |-> <<"Rome">>]>>]>>])

\* an empty answer text, with citations
BodyEmptyAnswer ==
    JsonText([messages |->
        <<[fragments |-> <<[text |-> <<>>]>>,
           citations |-> <<Citation(<<"https://a">>), EmptyObject,
                           Citation(<<"https://d">>)>>]>>])

BodyNoMessages == JsonText(EmptyObject)

\* a citation whose url is a JSON number
BodyCitationNumber ==
    JsonText([messages |->
        <<[fragments |-> <<[text |-> <<"Paris">>]>>,
           citations |-> <<Citation(JsonNumber)>>]>>])

\* a structured result whose url is a JSON number
BodyResearchNumber ==
    JsonText([messages |->
        <<[fragments |-> <<[text |-> <<Marker>>,
                            structuredResults |->
                                <<[document |-> [url |-> JsonNumber]]>>],
                           [text |-> <<"Paris">>]>>]>>])

\* a fragment whose text is a JSON number
BodyTextNumber ==
    JsonText([messages |-> <<[fragments |-> <<[text |-> JsonNumber]>>]>>])

Bodies == {BodyFull, BodyAnswerOnly, BodyEmptyAnswer, BodyNoMessages,
           BodyCitationNumber, BodyResearchNumber, BodyTextNumber, NotJson}

Idle == [status_code |-> 0, text |-> NotJson]

NoCall == [fault |-> FALSE, response |-> Idle]

Nets == {[fault |-> TRUE, response |-> Idle]}
        \cup {[fault |-> FALSE, response |-> [status_code |-> c, text |-> b]] :
                  c \in StatusCodes, b \in Bodies}

-----------------------------------------------------------------------------
(* querycsv: rows, the output file, process_questions                      *)

field_names == <<"qid", "question", "answer", "research", "citations",
                 "datetime">>

\* csv.DictWriter.writerow: the row's values in field_names order
writerow(row) == [k \in DOMAIN field_names |-> row[field_names[k]]]

\* "\n".join(list) for a list of str
RECURSIVE join(_)
join(list) ==
    IF Len(list) = 0 THEN <<>>
    ELSE IF Len(list) = 1 THEN list[1]
    ELSE list[1] \o <<"\n">> \o join(Tail(list))

\* str.join raises TypeError on an item that is not a str
joinRaises(list) == \E i \in DOMAIN list : ~isStr(list[i])

\* time.strftime('%Y-%m-%d %H:%M:%S', time.localtime())
strftime(t) == <<ToString(t)>>

\* a slip of line 110: the key is tested, its value is not
alreadyAnswered_keyOnly(question) == "answer" \in DOMAIN question

\* line 110: 'answer' in question and question['answer']
alreadyAnswered(question) ==
    "answer" \in DOMAIN question /\ question.answer # <<>>

\* the rows read_csv can return for the i-th line of the input
Row(i, kind) ==
    [qid |-> <<ToString(i)>>,
     question |-> <<"question", ToString(i)>>,
     answer |-> IF kind = "answered" THEN <<"old answer">> ELSE <<>>,
     research |-> IF kind = "blank" THEN <<>> ELSE <<"https://r0">>,
     citations |-> IF kind = "blank" THEN <<>>
                   ELSE <<"https://c0", "\n", "https://c1">>,
     datetime |-> IF kind = "blank" THEN <<>> ELSE <<"earlier">>]

RowKinds == {"answered", "blank", "stale"}

RowLists ==
    UNION {{[i \in 1..n |-> Row(i, kinds[i])] : kinds \in [1..n -> RowKinds]} :
           n \in 1..MaxRows}

Running == pc \notin {"done", "crashed", "interrupted"}

Logged(event) == Append(log, [event |-> event, row |-> idx])

\* lines 127-136 applied to one row: the row after each assignment that
\* ran, and whether a join raised
merge(question, r) ==
    LET q1 == IF Truthy(r.answer)
              THEN [question EXCEPT !.answer = r.answer[1],
                                    !.datetime = strftime(now)]
              ELSE question
        raise1 == Truthy(r.citations) /\ joinRaises(r.citations[1])
        q2 == IF Truthy(r.citations) /\ ~raise1
              THEN [q1 EXCEPT !.citations = join(r.citations[1])]
              ELSE q1
        raise2 == ~raise1 /\ Truthy(r.research) /\ joinRaises(r.research[1])
        q3 == IF Truthy(r.research) /\ ~raise1 /\ ~raise2
              THEN [q2 EXCEPT !.research = join(r.research[1])]
              ELSE q2
    IN  [raised |-> raise1 \/ raise2, question |-> q3]

\* a slip of lines 122-130: the timestamp is taken before the error check
update_stampsFirst(question, r) ==
    IF Truthy(r.error)
    THEN [continued |-> TRUE, raised |-> FALSE,
          question |-> [question EXCEPT !.datetime = strftime(now)]]
    ELSE [continued |-> FALSE, raised |-> merge(question, r).raised,
          question |-> merge(question, r).question]

\* lines 122-136: what handling a client result does to its row: `continue`
\* on a client-reported error, the merge otherwise
update(question, r) ==
    IF Truthy(r.error)
    THEN [continued |-> TRUE, raised |-> FALSE, question |-> question]
    ELSE [continued |-> FALSE, raised |-> merge(question, r).raised,
          question |-> merge(question, r).question]

BatchInit ==
    /\ questions \in RowLists
    /\ input = questions
    /\ DEBUG \in BOOLEAN
    /\ VERBOSE \in BOOLEAN
    /\ pc = "for"
    /\ idx = 1
    /\ processed_num = 0
    /\ skipped_num = 0
    /\ api_times = <<>>
    /\ question_response = GleanResponse(None, None, None, None)
    /\ http = NoCall
    /\ file = [exists |-> FALSE, lines |-> <<>>]
    /\ now = 1
    /\ sleeps = 0
    /\ log = <<>>

ParseIdle ==
    /\ response = Idle
    /\ parsed_answer = None
    /\ parsed_research = None
    /\ ppc = "idle"

\* lines 107-114: the for loop takes the next row
NextQuestion ==
    /\ pc = "for"
    /\ idx <= Len(questions)
    /\ processed_num' = processed_num + 1
    /\ IF alreadyAnswered(questions[idx])
       THEN /\ log' = Logged("Skipping question")
            /\ skipped_num' = skipped_num + 1
            /\ pc' = "sleep"
       ELSE /\ log' = Logged("Processing question")
            /\ skipped_num' = skipped_num
            /\ pc' = "getAnswer"
    /\ UNCHANGED <<questions, input, DEBUG, VERBOSE, idx, api_times,
                   question_response, http, file, now, sleeps>>
    /\ UNCHANGED parseVars

\* lines 115-120: the client call; an exception leaving getAnswer leaves
\* process_questions too and ends in main's handler (line 200)
CallGetAnswer ==
    /\ pc = "getAnswer"
    /\ \E net \in (IF DEBUG THEN {NoCall} ELSE Nets) :
         LET out == getAnswer(questions[idx], net) IN
         /\ http' = net
         /\ question_response' = out.value
         /\ IF out.raised
            THEN /\ pc' = "crashed"
                 /\ api_times' = api_times
            ELSE /\ pc' = "response"
                 /\ api_times' = Append(api_times, idx)
    /\ now' = now + 1
    /\ UNCHANGED <<questions, input, DEBUG, VERBOSE, idx, processed_num,
                   skipped_num, file, sleeps, log>>
    /\ UNCHANGED parseVars

\* lines 122-140, up to the call of write_question_log
HandleResponse ==
    /\ pc = "response"
    /\ LET u == update(questions[idx], question_response) IN
       /\ questions' = [questions EXCEPT ![idx] = u.question]
       /\ IF u.continued
          THEN \* log the error and `continue`: on to the next row
               /\ log' = Logged("Error processing question")
               /\ idx' = idx + 1
               /\ pc' = "for"
          ELSE /\ idx' = idx
               /\ IF u.raised
                  THEN pc' = "crashed" /\ log' = log
                  ELSE IF ~DEBUG
                  THEN pc' = "open" /\ log' = Logged("Syncing question log")
                  ELSE pc' = "sleep" /\ log' = log
    /\ UNCHANGED <<input, DEBUG, VERBOSE, processed_num, skipped_num,
                   api_times, question_response, http, file, now, sleeps>>
    /\ UNCHANGED parseVars

\* write_question_log, line 76: open(file_name, 'w') creates or truncates.
\* The disk is taken to accept every write: the except branch of line 85 is
\* not modelled.
OpenLog ==
    /\ pc = "open"
    /\ file' = [exists |-> TRUE, lines |-> <<>>]
    /\ pc' = "writeheader"
    /\ UNCHANGED <<questions, input, DEBUG, VERBOSE, idx, processed_num,
                   skipped_num, api_times, question_response, http, now,
                   sleeps, log>>
    /\ UNCHANGED parseVars

\* line 80
WriteHeader ==
    /\ pc = "writeheader"
    /\ file' = [file EXCEPT !.lines = <<field_names>>]
    /\ pc' = "writerow"
    /\ UNCHANGED <<questions, input, DEBUG, VERBOSE, idx, processed_num,
                   skipped_num, api_times, question_response, http, now,
                   sleeps, log>>
    /\ UNCHANGED parseVars

\* lines 83-84: one row of data per step
WriteRow ==
    /\ pc = "writerow"
    /\ Len(file.lines) <= Len(questions)
    /\ file' = [file EXCEPT
                  !.lines = Append(@, writerow(questions[Len(file.lines)]))]
    /\ UNCHANGED <<questions, input, DEBUG, VERBOSE, pc, idx, processed_num,
                   skipped_num, api_times, question_response, http, now,
                   sleeps, log>>
    /\ UNCHANGED parseVars

\* the with block ends; back in process_questions
CloseLog ==
    /\ pc = "writerow"
    /\ Len(file.lines) = Len(questions) + 1
    /\ pc' = "sleep"
    /\ UNCHANGED <<questions, input, DEBUG, VERBOSE, idx, processed_num,
                   skipped_num, api_times, question_response, http, file, now,
                   sleeps, log>>
    /\ UNCHANGED parseVars

\* line 142
Sleep ==
    /\ pc = "sleep"
    /\ sleeps' = sleeps + 1
    /\ now' = now + 1
    /\ idx' = idx + 1
    /\ pc' = "for"
    /\ UNCHANGED <<questions, input, DEBUG, VERBOSE, processed_num,
                   skipped_num, api_times, question_response, http, file, log>>
    /\ UNCHANGED parseVars

\* line 144
ReturnCounts ==
    /\ pc = "for"
    /\ idx > Len(questions)
    /\ pc' = "done"
    /\ UNCHANGED <<questions, input, DEBUG, VERBOSE, idx, processed_num,
                   skipped_num, api_times, question_response, http, file, now,
                   sleeps, log>>
    /\ UNCHANGED parseVars

\* the process is terminated from outside (the only cancellation there is)
Interrupt ==
    /\ Running
    /\ pc' = "interrupted"
    /\ UNCHANGED <<questions, input, DEBUG, VERBOSE, idx, processed_num,
                   skipped_num, api_times, question_response, http, file, now,
                   sleeps, log>>
    /\ UNCHANGED parseVars

Init == BatchInit /\ ParseIdle

Next ==
    \/ NextQuestion
    \/ CallGetAnswer
    \/ HandleResponse
    \/ OpenLog
    \/ WriteHeader
    \/ WriteRow
    \/ CloseLog
    \/ Sleep
    \/ ReturnCounts
    \/ Interrupt

Spec == Init /\ [][Next]_vars

-----------------------------------------------------------------------------
(* Properties of process_questions and getAnswer, checked under Spec.      *)

Rows == 1..Len(questions)

LoggedFor(event, i) ==
    \E k \in DOMAIN log : log[k] = [event |-> event, row |-> i]

SentToClient(i) == \E k \in DOMAIN api_times : api_times[k] = i

\* C1: a row whose answer field is non-empty when the loop reaches it is
\* never passed to clientAPI.getAnswer, raises the skip counter by exactly
\* one and keeps all six fields; the processed counter returned equals the
\* number of rows, skipped ones included.
C1_AnsweredRowsAreSkipped ==
    /\ \A i \in Rows :
           input[i].answer # <<>> => questions[i] = input[i] /\ ~SentToClient(i)
    /\ skipped_num =
           Cardinality({i \in 1..processed_num : input[i].answer # <<>>})
    /\ (pc = "done" => processed_num = Len(questions))

\* the 2-row run of the specification: row 1 answered, row 2 not
C1_Witness ==
    /\ pc = "done"
    /\ ~DEBUG
    /\ Len(questions) = 2
    /\ input[1].answer # <<>>
    /\ input[2].answer = <<>>
    /\ skipped_num = 1
    /\ processed_num = 2
    /\ api_times = <<2>>
    /\ file.exists
    /\ file.lines[2] = writerow(input[1])

\* C2: a row whose client result had its error set keeps its answer,
\* citations, research and datetime (indeed every field) and stays
\* unanswered, so that a later run queries it again.
C2_ErrorLeavesRowUnchanged ==
    \A i \in Rows :
        LoggedFor("Error processing question", i)
            => questions[i] = input[i] /\ questions[i].answer = <<>>

\* a row with stale citations, research and datetime came back with an error
C2_Witness ==
    /\ pc = "done"
    /\ \E i \in Rows :
           /\ LoggedFor("Error processing question", i)
           /\ SentToClient(i)
           /\ input[i].citations # <<>>
           /\ input[i].datetime # <<>>

\* C3: for a client result with no error, the row becomes answered (answer
\* overwritten, datetime set to the current time) if and only if the
\* returned answer is non-empty; citations and research each become the
\* returned URLs joined by newlines when the returned list is non-empty and
\* stay as they were otherwise.
C3_MergeStoresResult ==
    [][(pc = "response" /\ ~Truthy(question_response.error)
            /\ pc' # "interrupted")
       => LET r == question_response
              before == questions[idx]
              after == questions'[idx]
          IN  /\ (after.answer # <<>>) <=> Truthy(r.answer)
              /\ Truthy(r.answer) =>
                     after.answer = r.answer[1] /\ after.datetime = strftime(now)
              /\ ~Truthy(r.answer) => after.datetime = before.datetime
              /\ after.citations = IF Truthy(r.citations)
                                   THEN join(r.citations[1])
                                   ELSE before.citations
              /\ after.research = IF Truthy(r.research)
                                  THEN join(r.research[1])
                                  ELSE before.research]_vars

\* C4: with debug off, the output file is rewritten after every row that
\* was sent to the client, after an error result as after a success.
C4_SyncAfterEveryClientCall ==
    (~DEBUG /\ pc \in {"for", "done"})
        => \A i \in Rows :
               SentToClient(i) => LoggedFor("Syncing question log", i)

\* C5: with debug off, whenever the run is interrupted the output file is a
\* complete table (header and one line per row) that holds every row
\* handled before the in-progress row as it is in memory.
C5_FileCompleteWhenInterrupted ==
    (pc = "interrupted" /\ ~DEBUG /\ file.exists)
        => /\ Len(file.lines) = Len(questions) + 1
           /\ file.lines[1] = field_names
           /\ \A i \in 1..(idx - 1) : file.lines[i + 1] = writerow(questions[i])

RaisedInGetAnswer == pc = "crashed" /\ ~SentToClient(idx)

\* C6: with debug off, a status code outside the 2xx class gives a
\* GleanResponse with error set and no answer, research or citations, and
\* no exception.
C6_Non2xxIsAnError ==
    (~DEBUG /\ ~http.fault /\ http.response.status_code \notin 200..299)
        => /\ ~RaisedInGetAnswer
           /\ pc = "response" =>
                  /\ Truthy(question_response.error)
                  /\ question_response.answer = None
                  /\ question_response.research = None
                  /\ question_response.citations = None

\* C7: no failure on a row stops the batch loop: whatever the transport,
\* status, body and verbose/debug setting, getAnswer returns and
\* process_questions goes on to the remaining rows.
C7_NoRowStopsTheBatch == pc # "crashed"

\* C10: a pause follows every row before the next row is handled, whatever
\* the row's outcome.
C10_PauseAfterEveryRow == pc = "for" => sleeps = idx - 1

-----------------------------------------------------------------------------
(* The response bodies the parse pass is checked on: every body of at most *)
(* MaxMsgs messages holding at most MaxFrags fragments in all, each        *)
(* fragment with or without a text and with or without structuredResults,  *)
(* and the body json.loads rejects.                                        *)

FragmentTexts == {<<"Paris">>, <<"Rome">>, <<"see", Marker, "docs">>}

FragmentResults ==
    {<<Document("https://b")>>,
     <<[title |-> <<"t">>], Document("https://c"), [document |-> EmptyObject]>>}

Fragments ==
    {EmptyObject}
    \cup {[text |-> t] : t \in FragmentTexts}
    \cup {[structuredResults |-> r] : r \in FragmentResults}
    \cup {[text |-> t, structuredResults |-> r] :
              t \in FragmentTexts, r \in FragmentResults}

RECURSIVE FragmentLists(_)
FragmentLists(n) ==
    IF n = 0 THEN {<<>>}
    ELSE LET shorter == FragmentLists(n - 1) IN
         shorter \cup {Append(fs, f) : fs \in {s \in shorter : Len(s) = n - 1},
                                       f \in Fragments}

MessagesWithin(budget) ==
    {EmptyObject} \cup {[fragments |-> fs] : fs \in FragmentLists(budget)}

FragmentCount(message) ==
    IF "fragments" \in DOMAIN message THEN Len(message.fragments) ELSE 0

RECURSIVE MessageLists(_, _)
MessageLists(n, budget) ==
    IF n = 0 THEN {<<>>}
    ELSE {<<>>} \cup
         UNION {{<<m>> \o rest :
                     rest \in MessageLists(n - 1, budget - FragmentCount(m))} :
                m \in MessagesWithin(budget)}

ParseBodies ==
    {NotJson, JsonText(EmptyObject)}
    \cup {JsonText([messages |-> ms]) : ms \in MessageLists(MaxMsgs, MaxFrags)}

-----------------------------------------------------------------------------
(* The parse pass of getAnswer: parseAnswer, then parseResearch, over the  *)
(* same response.                                                          *)

ParseInit ==
    /\ response \in [status_code : {200}, text : ParseBodies]
    /\ parsed_answer = None
    /\ parsed_research = None
    /\ ppc = "parseAnswer"

DoParseAnswer ==
    /\ ppc = "parseAnswer"
    /\ parsed_answer' = parseAnswer(response)
    /\ ppc' = "parseResearch"
    /\ UNCHANGED <<response, parsed_research>>
    /\ UNCHANGED batchVars

DoParseResearch ==
    /\ ppc = "parseResearch"
    /\ parsed_research' = parseResearch(response)
    /\ ppc' = "parsed"
    /\ UNCHANGED <<response, parsed_answer>>
    /\ UNCHANGED batchVars

BatchIdle ==
    /\ questions = <<>>
    /\ input = <<>>
    /\ DEBUG = FALSE
    /\ VERBOSE = FALSE
    /\ pc = "parsing"
    /\ idx = 1
    /\ processed_num = 0
    /\ skipped_num = 0
    /\ api_times = <<>>
    /\ question_response = GleanResponse(None, None, None, None)
    /\ http = NoCall
    /\ file = [exists |-> FALSE, lines |-> <<>>]
    /\ now = 1
    /\ sleeps = 0
    /\ log = <<>>

ParseNext ==
    \/ DoParseAnswer
    \/ DoParseResearch

ParseSpecInit == ParseInit /\ BatchIdle

ParseSpec == ParseSpecInit /\ [][ParseNext]_vars

-----------------------------------------------------------------------------
(* Properties of the parse pass, checked under ParseSpec.                  *)

messagesOf(resp) ==
    IF resp.text.valid /\ "messages" \in DOMAIN resp.text.value
    THEN resp.text.value.messages ELSE <<>>

fragmentsOf(message) ==
    IF "fragments" \in DOMAIN message THEN message.fragments ELSE <<>>

resultsOf(fragment) ==
    IF "structuredResults" \in DOMAIN fragment
    THEN fragment.structuredResults ELSE <<>>

HasMarker(fragment) ==
    "text" \in DOMAIN fragment /\ Contains(fragment.text, Marker)

\* <<i, j, k>>: result k of fragment j of message i carries a document url,
\* and fragment j comes at or after a marker fragment of message i
ResearchPositions(resp) ==
    LET ms == messagesOf(resp) IN
    {p \in UNION {UNION {{<<i, j, k>> :
                             k \in DOMAIN resultsOf(fragmentsOf(ms[i])[j])} :
                         j \in DOMAIN fragmentsOf(ms[i])} :
                  i \in DOMAIN ms} :
        LET fs == fragmentsOf(ms[p[1]])
            result == resultsOf(fs[p[2]])[p[3]]
        IN  /\ "document" \in DOMAIN result
            /\ "url" \in DOMAIN result.document
            /\ \E j0 \in 1..p[2] : HasMarker(fs[j0])}

NotAfter(p, q) ==
    \/ p[1] < q[1]
    \/ p[1] = q[1] /\ p[2] < q[2]
    \/ p[1] = q[1] /\ p[2] = q[2] /\ p[3] <= q[3]

\* C8: parseResearch returns, in message, fragment and result order, exactly
\* the document urls of the structured results of the fragments that come at
\* or after the first marker fragment of their own message; nothing when no
\* fragment text contains the marker.
C8_ResearchAfterMarker ==
    (ppc = "parsed" /\ response.text.valid)
        => LET P == ResearchPositions(response)
               ms == messagesOf(response)
           IN  /\ parsed_research # None
               /\ Len(parsed_research[1]) = Cardinality(P)
               /\ \A p \in P :
                      parsed_research[1][Cardinality({q \in P : NotAfter(q, p)})]
                          = resultsOf(fragmentsOf(ms[p[1]])[p[2]])[p[3]].document.url
               /\ (\A i \in DOMAIN ms : \A j \in DOMAIN fragmentsOf(ms[i]) :
                       ~HasMarker(fragmentsOf(ms[i])[j]))
                      => parsed_research = Some(<<>>)

\* the marker is in message 1 only; message 2 carries results that are not
\* collected, and results of message 1 are
C8_Witness ==
    /\ ppc = "parsed"
    /\ Len(messagesOf(response)) = 2
    /\ \E j \in DOMAIN fragmentsOf(messagesOf(response)[1]) :
           HasMarker(fragmentsOf(messagesOf(response)[1])[j])
    /\ \E j \in DOMAIN fragmentsOf(messagesOf(response)[2]) :
           /\ resultsOf(fragmentsOf(messagesOf(response)[2])[j]) # <<>>
           /\ ~HasMarker(fragmentsOf(messagesOf(response)[2])[j])
    /\ parsed_research = Some(<<<<"https://b">>>>)

\* <<i, j>>: fragment j of message i carries a text field
TextPositions(resp) ==
    LET ms == messagesOf(resp) IN
    UNION {{<<i, j>> : j \in {j \in DOMAIN fragmentsOf(ms[i]) :
                                  "text" \in DOMAIN fragmentsOf(ms[i])[j]}} :
           i \in DOMAIN ms}

\* C9: parseAnswer returns the text of the last fragment carrying a text
\* field within the last message that has one, and None when the body is
\* not JSON or the messages key, the fragments keys or the text keys are
\* missing.
C9_LastTextWins ==
    ppc \in {"parseResearch", "parsed"}
        => LET T == TextPositions(response)
               ms == messagesOf(response)
           IN  IF T = {} THEN parsed_answer = None
               ELSE \E p \in T :
                        /\ \A q \in T : q[1] < p[1] \/ (q[1] = p[1] /\ q[2] <= p[2])
                        /\ parsed_answer = Some(ms[p[1]].fragments[p[2]].text)

\* two texts in message 1, none in message 2: the later text of message 1
C9_Witness ==
    /\ ppc = "parsed"
    /\ Len(messagesOf(response)) = 2
    /\ Len(fragmentsOf(messagesOf(response)[1])) = 2
    /\ TextPositions(response) = {<<1, 1>>, <<1, 2>>}
    /\ messagesOf(response)[1].fragments[1].text = <<"Rome">>
    /\ parsed_answer = Some(<<"Paris">>)

====
